---------------------------- MODULE Spec2Model ----------------------------
(***************************************************************************)
(* Model of the financial-analysis pipeline of new-workflow-6:             *)
(*   - DataService.fetch_company_financials (statement fallback followed   *)
(*     by company-info enrichment over an ordered provider list),          *)
(*   - CalculationService._safe_divide and calculate_ratios,               *)
(*   - SecEdgarProvider.get_financial_statements (fact extraction),        *)
(*   - YFinanceProvider.get_financial_statements,                          *)
(*   - one SecEdgarProvider object over a sequence of calls (identifier    *)
(*     table and company-facts cache).                                     *)
(*                                                                         *)
(* Conventions.  An Optional[T] value is a sequence of length <= 1:        *)
(* None is << >> and a present value x is <<x>>.  An Optional[float] is    *)
(* None or a rational <<num, den>> with den > 0 in lowest terms.           *)
(***************************************************************************)
EXTENDS Integers, Sequences, FiniteSets, TLC

VARIABLES
    \* ---- DataService.fetch_company_financials -------------------------
    providers,              \* self.providers: the behaviour of each provider
    pc,                     \* position inside fetch_company_financials
    idx,                    \* index of the provider the current loop is at
    company_info,           \* local company_info (Optional[CompanyInfo])
    statements,             \* local statements (list)
    last_statement_error,   \* local last_statement_error (Optional[error])
    merged_info_dict,       \* local merged_info_dict (Optional[dict])
    result,                 \* what the call gave its caller
    calls,                  \* log of the provider operations invoked
    \* ---- CalculationService._safe_divide ------------------------------
    numerator, denominator, quotient,
    \* ---- CalculationService.calculate_ratios --------------------------
    statement, ratios,
    \* ---- SecEdgarProvider.get_financial_statements --------------------
    gaap_facts, num_years, sec_result,
    \* ---- YFinanceProvider.get_financial_statements --------------------
    financials,             \* ticker_obj.financials: its columns, in order
    balance_sheet_empty,    \* ticker_obj.balance_sheet.empty
    yf_result,
    \* ---- one SecEdgarProvider object over a sequence of calls ---------
    cik_map,                \* self._cik_map (None or the loaded table)
    company_facts_cache,    \* self._company_facts_cache (cik -> document)
    now,                    \* wall-clock time, in seconds
    call_count,             \* number of calls made on the object so far
    last_call,              \* the last of them and what it did
    \* ---- AnalysisService._get_trend and the _analyze_* functions -----
    trend_metric,           \* the ratio an _analyze_* function reads
    historical,             \* [r.<metric> for r in ratios], latest first
    trend,                  \* what _get_trend(historical) returned
    text_trend,             \* the trend the _analyze_* text reports
    \* ---- AnalysisService._synthesize_findings ------------------------
    latest,                 \* ratios[0]
    synthesis               \* the dict _synthesize_findings returned

fetchVars  == <<providers, pc, idx, company_info, statements,
                last_statement_error, merged_info_dict, result, calls>>
divideVars == <<numerator, denominator, quotient>>
ratioVars  == <<statement, ratios>>
secVars    == <<gaap_facts, num_years, sec_result>>
yfVars     == <<financials, balance_sheet_empty, yf_result>>
objectVars == <<cik_map, company_facts_cache, now, call_count, last_call>>
analysisVars == <<trend_metric, historical, trend, text_trend, latest, synthesis>>
vars       == <<fetchVars, divideVars, ratioVars, secVars, yfVars, objectVars,
                analysisVars>>

None    == << >>
Some(x) == <<x>>
IsNone(o) == Len(o) = 0

(***************************************************************************)
(* Bounds                                                                  *)
(***************************************************************************)
NumProviders == 3       \* length of the provider list
MaxOperand   == 4       \* _safe_divide operands range over -MaxOperand..MaxOperand
MaxReported  == 3       \* at most MaxReported metrics of a statement are non-null
MaxItems     == 2       \* fact entries in one company-facts document
MaxYears     == 2       \* num_years ranges over 0..MaxYears
MaxColumns   == 3       \* columns of the yfinance income statement
MaxCalls     == 3       \* calls made on one SecEdgarProvider object
MaxTicks     == 2       \* clock advances between those calls

(***************************************************************************)
(* Providers as DataService sees them.                                     *)
(***************************************************************************)
ProviderIds == 1..NumProviders

\* The exception classes an operation of a provider can raise: the
\* DataProviderError of the provider contract, and any other exception
\* (e.g. the KeyError of item["fy"] / item["end"] / company['ticker'] in
\* SecEdgarProvider, which it does not wrap).
ErrorTypes == {"DataProviderError", "Exception"}

\* What one provider does when asked.  info: get_company_info returns or
\* raises; exchange/sector: whether the CompanyInfo it returns carries the
\* Optional field; stmts: get_financial_statements returns a list with
\* statements, returns an empty list, or raises.
Behaviours ==
    { b \in [info : {"return"} \cup ErrorTypes, exchange : BOOLEAN,
             sector : BOOLEAN,
             stmts : {"return", "empty"} \cup ErrorTypes] :
        b.info # "return" => (~b.exchange /\ ~b.sector) }

Raises(t, p, op) == [kind |-> "raise", value |-> None,
                     error |-> Some([type |-> t, provider |-> p, op |-> op])]
Returns(v)       == [kind |-> "return", value |-> Some(v), error |-> None]

\* The server never answers.  The providers pass no timeout to their GETs
\* (sec_edgar_provider.py lines 66 and 96: self._session.get(url)), so the
\* operation neither returns nor raises.
NoResponse       == [kind |-> "blocked", value |-> None, error |-> None]

\* CompanyInfo (core/models.py): name is a required field, exchange and
\* sector stand for the Optional fields.  The value provider p offers for a
\* field is <<p>>, so values of different providers differ.
CompanyInfoOf(p) ==
    [name     |-> Some(p),
     exchange |-> IF providers[p].exchange THEN Some(p) ELSE None,
     sector   |-> IF providers[p].sector THEN Some(p) ELSE None]

\* The statement list of provider p.  FinancialStatement objects are opaque
\* to DataService; only their origin is recorded.
StatementsOf(p) ==
    IF providers[p].stmts = "empty" THEN << >> ELSE <<[source |-> p]>>

\* provider.get_company_info(ticker)
get_company_info(p) ==
    IF providers[p].info = "return" THEN Returns(CompanyInfoOf(p))
    ELSE IF providers[p].info = "no response" THEN NoResponse
    ELSE Raises(providers[p].info, p, "get_company_info")

\* provider.get_financial_statements(ticker, num_years)
get_financial_statements(p) ==
    IF providers[p].stmts \in {"return", "empty"} THEN Returns(StatementsOf(p))
    ELSE IF providers[p].stmts = "no response" THEN NoResponse
    ELSE Raises(providers[p].stmts, p, "get_financial_statements")

IsDataProviderError(r) == r.kind = "raise" /\ r.error[1].type = "DataProviderError"
IsOtherException(r)    == r.kind = "raise" /\ r.error[1].type = "Exception"


(***************************************************************************)
(* DataService.fetch_company_financials                                    *)
(***************************************************************************)
Call(p, op) == [provider |-> p, op |-> op, phase |-> pc]

Pending == [kind |-> "pending", info |-> None, statements |-> << >>,
            error |-> None, cause |-> None]

\* "return final_company_info, statements"
Returned(info, stmts) ==
    [kind |-> "returned", info |-> Some(info), statements |-> stmts,
     error |-> None, cause |-> None]

\* "raise DataProviderError(...) from last_statement_error"
RaisedByService(cause) ==
    [kind |-> "raised", info |-> None, statements |-> << >>,
     error |-> Some([type |-> "DataProviderError", provider |-> 0,
                     op |-> "fetch_company_financials"]),
     cause |-> cause]

\* an exception of a provider that no except clause of the service catches
Propagated(err) ==
    [kind |-> "raised", info |-> None, statements |-> << >>,
     error |-> err, cause |-> None]

\* The operations one iteration of the fallback loop invokes on provider p:
\* get_company_info, then get_financial_statements unless the first raised.
FallbackCalls(p) ==
    IF get_company_info(p).kind = "raise"
    THEN << Call(p, "get_company_info") >>
    ELSE << Call(p, "get_company_info"), Call(p, "get_financial_statements") >>

\* The exception the try block of the fallback loop ends with, if any.
FallbackRaised(p) ==
    IF get_company_info(p).kind # "return" THEN get_company_info(p)
    ELSE get_financial_statements(p)

\* Mutant of FallbackSuccess: the loop goes on after a success (no break).
FallbackSuccessNoBreak ==
    /\ pc = "fallback"
    /\ idx <= NumProviders
    /\ get_company_info(idx).kind = "return"
    /\ get_financial_statements(idx).kind = "return"
    /\ company_info' = get_company_info(idx).value
    /\ statements' = get_financial_statements(idx).value[1]
    /\ calls' = calls \o FallbackCalls(idx)
    /\ idx' = idx + 1
    /\ pc' = IF idx = NumProviders THEN "check" ELSE "fallback"
    /\ UNCHANGED <<providers, last_statement_error, merged_info_dict, result>>

\* lines 62-66: both operations return; break
FallbackSuccess ==
    /\ pc = "fallback"
    /\ idx <= NumProviders
    /\ get_company_info(idx).kind = "return"
    /\ get_financial_statements(idx).kind = "return"
    /\ company_info' = get_company_info(idx).value
    /\ statements' = get_financial_statements(idx).value[1]
    /\ calls' = calls \o FallbackCalls(idx)
    /\ pc' = "check"
    /\ UNCHANGED <<providers, idx, last_statement_error, merged_info_dict, result>>

\* Mutant of FallbackProviderError: only the first error is remembered.
FallbackProviderErrorKeepFirst ==
    /\ pc = "fallback"
    /\ idx <= NumProviders
    /\ IsDataProviderError(FallbackRaised(idx))
    /\ last_statement_error' = IF IsNone(last_statement_error)
                               THEN FallbackRaised(idx).error
                               ELSE last_statement_error
    /\ company_info' = None
    /\ calls' = calls \o FallbackCalls(idx)
    /\ idx' = idx + 1
    /\ pc' = IF idx = NumProviders THEN "check" ELSE "fallback"
    /\ UNCHANGED <<providers, statements, merged_info_dict, result>>

\* lines 68-72: except DataProviderError; continue
FallbackProviderError ==
    /\ pc = "fallback"
    /\ idx <= NumProviders
    /\ IsDataProviderError(FallbackRaised(idx))
    /\ last_statement_error' = FallbackRaised(idx).error
    /\ company_info' = None
    /\ calls' = calls \o FallbackCalls(idx)
    /\ idx' = idx + 1
    /\ pc' = IF idx = NumProviders THEN "check" ELSE "fallback"
    /\ UNCHANGED <<providers, statements, merged_info_dict, result>>

\* lines 60-72: an exception that is no DataProviderError leaves the call
FallbackUncaught ==
    /\ pc = "fallback"
    /\ idx <= NumProviders
    /\ IsOtherException(FallbackRaised(idx))
    /\ calls' = calls \o FallbackCalls(idx)
    /\ result' = Propagated(FallbackRaised(idx).error)
    /\ pc' = "done"
    /\ UNCHANGED <<providers, idx, company_info, statements,
                   last_statement_error, merged_info_dict>>

\* line 74: "not statements or not company_info"
NothingFetched == Len(statements) = 0 \/ IsNone(company_info)

\* lines 74-76
RaiseNoStatements ==
    /\ pc = "check"
    /\ NothingFetched
    /\ result' = RaisedByService(last_statement_error)
    /\ pc' = "done"
    /\ UNCHANGED <<providers, idx, company_info, statements,
                   last_statement_error, merged_info_dict, calls>>

\* line 80: merged_info_dict = company_info.model_dump()
StartEnrichment ==
    /\ pc = "check"
    /\ ~NothingFetched
    /\ merged_info_dict' = company_info
    /\ idx' = 1
    /\ pc' = "enrich"
    /\ UNCHANGED <<providers, company_info, statements,
                   last_statement_error, result, calls>>

\* Mutant of EnrichField: any offered value is written.
EnrichFieldOverwrite(merged, offered) ==
    IF ~IsNone(offered) THEN offered ELSE merged

\* line 91: a key is written only if the merged value is None and the
\* offered value is not
EnrichField(merged, offered) ==
    IF IsNone(merged) /\ ~IsNone(offered) THEN offered ELSE merged

\* lines 89-93
EnrichInfo(merged, enrichment_info) ==
    [name     |-> EnrichField(merged.name, enrichment_info.name),
     exchange |-> EnrichField(merged.exchange, enrichment_info.exchange),
     sector   |-> EnrichField(merged.sector, enrichment_info.sector)]

\* Mutant of EnrichTarget: the providers are consulted in reverse order.
EnrichTargetReversed(k) == NumProviders + 1 - k

\* line 82: "for provider in self.providers", the k-th provider consulted
EnrichTarget(k) == k

\* lines 84-93: the provider returns its info, which is merged
EnrichMerge ==
    /\ pc = "enrich"
    /\ idx <= NumProviders
    /\ get_company_info(EnrichTarget(idx)).kind = "return"
    /\ merged_info_dict' =
          Some(EnrichInfo(merged_info_dict[1], get_company_info(EnrichTarget(idx)).value[1]))
    /\ calls' = Append(calls, Call(EnrichTarget(idx), "get_company_info"))
    /\ idx' = idx + 1
    /\ UNCHANGED <<providers, pc, company_info, statements,
                   last_statement_error, result>>

\* lines 95-97: except DataProviderError; continue
EnrichSkip ==
    /\ pc = "enrich"
    /\ idx <= NumProviders
    /\ IsDataProviderError(get_company_info(EnrichTarget(idx)))
    /\ calls' = Append(calls, Call(EnrichTarget(idx), "get_company_info"))
    /\ idx' = idx + 1
    /\ UNCHANGED <<providers, pc, company_info, statements,
                   last_statement_error, merged_info_dict, result>>

\* lines 84-97: an exception that is no DataProviderError leaves the call
EnrichUncaught ==
    /\ pc = "enrich"
    /\ idx <= NumProviders
    /\ IsOtherException(get_company_info(EnrichTarget(idx)))
    /\ calls' = Append(calls, Call(EnrichTarget(idx), "get_company_info"))
    /\ result' = Propagated(get_company_info(EnrichTarget(idx)).error)
    /\ pc' = "done"
    /\ UNCHANGED <<providers, idx, company_info, statements,
                   last_statement_error, merged_info_dict>>

\* lines 100-103
ReturnFinancials ==
    /\ pc = "enrich"
    /\ idx > NumProviders
    /\ result' = Returned(merged_info_dict[1], statements)
    /\ pc' = "done"
    /\ UNCHANGED <<providers, idx, company_info, statements,
                   last_statement_error, merged_info_dict, calls>>

\* FinancialAnalysisSystem.run, system.py line 63: data_sources_used =
\* [p.__class__.__name__ for p in self.data_service.providers], built once
\* fetch_company_financials has returned (line 45)
data_sources_used == [k \in 1..NumProviders |-> k]

IdleFetch ==
    /\ providers = << >>
    /\ pc = "idle"
    /\ idx = 0
    /\ company_info = None
    /\ statements = << >>
    /\ last_statement_error = None
    /\ merged_info_dict = None
    /\ result = Pending
    /\ calls = << >>

IdleDivide == numerator = None /\ denominator = None /\ quotient = None
IdleRatios == statement = None /\ ratios = None
IdleSec    == gaap_facts = None /\ num_years = 0 /\ sec_result = None
IdleYf     == financials = << >> /\ balance_sheet_empty = TRUE /\ yf_result = None
NoRatios == [current_ratio |-> None, net_margin |-> None, debt_to_equity |-> None]

IdleAnalysis ==
    /\ trend_metric = "" /\ historical = << >> /\ trend = None /\ text_trend = None
    /\ latest = NoRatios /\ synthesis = None

IdleObject ==
    /\ cik_map = None /\ company_facts_cache = << >> /\ now = 0
    /\ call_count = 0 /\ last_call = None

\* DataService(providers) was constructed (providers is not empty, line 26)
\* and fetch_company_financials was entered (lines 52-54).
InitFetch ==
    /\ providers \in [ProviderIds -> Behaviours]
    /\ pc = "fallback"
    /\ idx = 1
    /\ company_info = None
    /\ statements = << >>
    /\ last_statement_error = None
    /\ merged_info_dict = None
    /\ result = Pending
    /\ calls = << >>
    /\ IdleDivide /\ IdleRatios /\ IdleSec /\ IdleYf /\ IdleObject /\ IdleAnalysis

NextFetch ==
    \/ FallbackSuccess /\ UNCHANGED <<divideVars, ratioVars, secVars, yfVars, objectVars, analysisVars>>
    \/ FallbackProviderError /\ UNCHANGED <<divideVars, ratioVars, secVars, yfVars, objectVars, analysisVars>>
    \/ FallbackUncaught /\ UNCHANGED <<divideVars, ratioVars, secVars, yfVars, objectVars, analysisVars>>
    \/ RaiseNoStatements /\ UNCHANGED <<divideVars, ratioVars, secVars, yfVars, objectVars, analysisVars>>
    \/ StartEnrichment /\ UNCHANGED <<divideVars, ratioVars, secVars, yfVars, objectVars, analysisVars>>
    \/ EnrichMerge /\ UNCHANGED <<divideVars, ratioVars, secVars, yfVars, objectVars, analysisVars>>
    \/ EnrichSkip /\ UNCHANGED <<divideVars, ratioVars, secVars, yfVars, objectVars, analysisVars>>
    \/ EnrichUncaught /\ UNCHANGED <<divideVars, ratioVars, secVars, yfVars, objectVars, analysisVars>>
    \/ ReturnFinancials /\ UNCHANGED <<divideVars, ratioVars, secVars, yfVars, objectVars, analysisVars>>

SpecFetch == InitFetch /\ [][NextFetch]_vars

(***************************************************************************)
(* SpecSlow: fetch_company_financials over providers whose server may      *)
(* never answer.  The call is sequential code that keeps running, hence    *)
(* the weak fairness of its steps.                                         *)
(***************************************************************************)
SlowBehaviours ==
    [info : {"return", "no response"} \cup ErrorTypes, exchange : {FALSE},
     sector : {FALSE}, stmts : {"return", "no response"} \cup ErrorTypes]

InitSlow ==
    /\ providers \in [ProviderIds -> SlowBehaviours]
    /\ pc = "fallback"
    /\ idx = 1
    /\ company_info = None
    /\ statements = << >>
    /\ last_statement_error = None
    /\ merged_info_dict = None
    /\ result = Pending
    /\ calls = << >>
    /\ IdleDivide /\ IdleRatios /\ IdleSec /\ IdleYf /\ IdleObject /\ IdleAnalysis

SpecSlow == InitSlow /\ [][NextFetch]_vars /\ WF_vars(NextFetch)

(***************************************************************************)
(* Optional[float] arithmetic.  A float is modelled as the rational        *)
(* <<num, den>>, den > 0, in lowest terms; None is << >>.  The outcome of  *)
(* evaluating a Python expression is a value or a raised exception.        *)
(***************************************************************************)
Abs(n) == IF n < 0 THEN -n ELSE n

RECURSIVE GCD(_, _)
GCD(a, b) == IF b = 0 THEN a ELSE GCD(b, a % b)

\* the rational n/d (d # 0) in lowest terms with a positive denominator
Rational(n, d) ==
    LET g == GCD(Abs(n), Abs(d))
        sgn == IF d < 0 THEN -1 ELSE 1
    IN  << (sgn * n) \div g, (sgn * d) \div g >>

Float(n) == <<n, 1>>

Value(v)  == [raised |-> "", value |-> v]
Raise(t)  == [raised |-> t, value |-> None]

\* Python "a / b": TypeError on None, ZeroDivisionError on a zero divisor
TrueDiv(a, b) ==
    IF IsNone(a) \/ IsNone(b) THEN Raise("TypeError")
    ELSE IF b[1] = 0 THEN Raise("ZeroDivisionError")
    ELSE Value(Rational(a[1] * b[2], a[2] * b[1]))

\* Python "a - b": TypeError on None
Subtract(a, b) ==
    IF IsNone(a) \/ IsNone(b) THEN Raise("TypeError")
    ELSE Value(Rational(a[1] * b[2] - b[1] * a[2], a[2] * b[2]))

\* Python "x == 0" (False, not an error, for None)
EqualsZero(x) == ~IsNone(x) /\ x[1] = 0

(***************************************************************************)
(* CalculationService                                                      *)
(***************************************************************************)
\* Mutant of SafeDivide: "if not numerator or not denominator", which also
\* treats a zero numerator as missing.
SafeDivideFalsy(n, d) ==
    IF IsNone(n) \/ EqualsZero(n) \/ IsNone(d) \/ EqualsZero(d)
    THEN Value(None)
    ELSE TrueDiv(n, d)

\* CalculationService._safe_divide
SafeDivide(n, d) ==
    IF IsNone(n) \/ IsNone(d) \/ EqualsZero(d)
    THEN Value(None)
    ELSE TrueDiv(n, d)

\* Mutant of QuickAssets: the subtraction without the None guard.
QuickAssetsUnguarded(b) == Subtract(b.current_assets, b.inventory)

\* lines 49-51: quick_assets
QuickAssets(b) ==
    IF ~IsNone(b.current_assets) /\ ~IsNone(b.inventory)
    THEN Subtract(b.current_assets, b.inventory)
    ELSE Value(None)

\* line 52: quick_ratio
QuickRatio(b) ==
    IF QuickAssets(b).raised # "" THEN QuickAssets(b)
    ELSE SafeDivide(QuickAssets(b).value, b.current_liabilities)

\* Mutant of DebtServiceCoverage: coverage of the interest expense.
DebtServiceCoverageInterest(i, b, c) ==
    IF ~IsNone(c.operating_cash_flow) /\ ~IsNone(b.total_debt)
    THEN SafeDivide(c.operating_cash_flow, i.interest_expense)
    ELSE Value(None)

\* lines 68-71: debt_service_coverage
DebtServiceCoverage(i, b, c) ==
    IF ~IsNone(c.operating_cash_flow) /\ ~IsNone(b.total_debt)
    THEN SafeDivide(c.operating_cash_flow, b.total_debt)
    ELSE Value(None)

\* lines 42-78: the fifteen ratios, each with the outcome of its evaluation
RatioOutcomes(s) ==
    LET i == s.income_statement
        b == s.balance_sheet
        c == s.cash_flow_statement
    IN  [current_ratio         |-> SafeDivide(b.current_assets, b.current_liabilities),
         quick_ratio           |-> QuickRatio(b),
         cash_ratio            |-> SafeDivide(b.cash_and_equivalents, b.current_liabilities),
         roe                   |-> SafeDivide(i.net_income, b.shareholders_equity),
         roa                   |-> SafeDivide(i.net_income, b.total_assets),
         gross_margin          |-> SafeDivide(i.gross_profit, i.revenue),
         net_margin            |-> SafeDivide(i.net_income, i.revenue),
         ebitda_margin         |-> SafeDivide(i.ebitda, i.revenue),
         debt_to_equity        |-> SafeDivide(b.total_debt, b.shareholders_equity),
         debt_to_assets        |-> SafeDivide(b.total_debt, b.total_assets),
         times_interest_earned |-> SafeDivide(i.operating_income, i.interest_expense),
         debt_service_coverage |-> DebtServiceCoverage(i, b, c),
         asset_turnover        |-> SafeDivide(i.revenue, b.total_assets),
         inventory_turnover    |-> SafeDivide(i.cost_of_goods_sold, b.inventory),
         receivables_turnover  |-> SafeDivide(i.revenue, b.accounts_receivable)]

RatioNames == {"current_ratio", "quick_ratio", "cash_ratio", "roe", "roa",
               "gross_margin", "net_margin", "ebitda_margin", "debt_to_equity",
               "debt_to_assets", "times_interest_earned", "debt_service_coverage",
               "asset_turnover", "inventory_turnover", "receivables_turnover"}

\* CalculationService.calculate_ratios: the FinancialRatios record (lines
\* 80-103), or the exception an evaluation raised on the way
CalculateRatios(s) ==
    LET o == RatioOutcomes(s)
        raising == {r \in RatioNames : o[r].raised # ""}
    IN  IF raising # {}
        THEN Raise(o[CHOOSE r \in raising : TRUE].raised)
        ELSE Value(Some(
               [ticker |-> s.ticker, period |-> s.period,
                fiscal_year |-> s.fiscal_year,
                current_ratio         |-> o.current_ratio.value,
                quick_ratio           |-> o.quick_ratio.value,
                cash_ratio            |-> o.cash_ratio.value,
                roe                   |-> o.roe.value,
                roa                   |-> o.roa.value,
                gross_margin          |-> o.gross_margin.value,
                net_margin            |-> o.net_margin.value,
                ebitda_margin         |-> o.ebitda_margin.value,
                debt_to_equity        |-> o.debt_to_equity.value,
                debt_to_assets        |-> o.debt_to_assets.value,
                times_interest_earned |-> o.times_interest_earned.value,
                debt_service_coverage |-> o.debt_service_coverage.value,
                asset_turnover        |-> o.asset_turnover.value,
                inventory_turnover    |-> o.inventory_turnover.value,
                receivables_turnover  |-> o.receivables_turnover.value]))

(***************************************************************************)
(* SpecDivide: _safe_divide applied to a pair of operands                  *)
(***************************************************************************)
Operands == {None} \cup {Float(n) : n \in (-MaxOperand)..MaxOperand}

InitDivide ==
    /\ numerator \in Operands
    /\ denominator \in Operands
    /\ quotient = None
    /\ IdleFetch /\ IdleRatios /\ IdleSec /\ IdleYf /\ IdleObject /\ IdleAnalysis

CallSafeDivide ==
    /\ IsNone(quotient)
    /\ quotient' = Some(SafeDivide(numerator, denominator))
    /\ UNCHANGED <<numerator, denominator>>

NextDivide == CallSafeDivide /\ UNCHANGED <<fetchVars, ratioVars, secVars, yfVars, objectVars, analysisVars>>

SpecDivide == InitDivide /\ [][NextDivide]_vars

(***************************************************************************)
(* SpecRatios: calculate_ratios applied to a FinancialStatement            *)
(***************************************************************************)
\* The metrics calculate_ratios reads (core/models.py); every one of them
\* is Optional[float] with default None.
IncomeMetrics   == {"revenue", "cost_of_goods_sold", "gross_profit",
                    "operating_income", "interest_expense", "net_income",
                    "ebitda"}
BalanceMetrics  == {"total_assets", "current_assets", "cash_and_equivalents",
                    "inventory", "accounts_receivable", "current_liabilities",
                    "total_debt", "shareholders_equity"}
CashFlowMetrics == {"operating_cash_flow"}
Metrics == IncomeMetrics \cup BalanceMetrics \cup CashFlowMetrics

\* reported values: negative, zero and positive numbers
ReportedValues == {-1, 0, 2}

\* (ticker, fiscal_year, period) of a statement
StatementKeys == { <<"AAPL", 2023, "FY">>, <<"MSFT", 2022, "Q1">> }

\* the FinancialStatement with the metrics of `reported` set and every
\* other metric left at its default None
StatementOf(key, reported) ==
    LET m(f) == IF f \in DOMAIN reported THEN Float(reported[f]) ELSE None
    IN  [ticker |-> key[1], fiscal_year |-> key[2], period |-> key[3],
         income_statement |->
            [revenue |-> m("revenue"),
             cost_of_goods_sold |-> m("cost_of_goods_sold"),
             gross_profit |-> m("gross_profit"),
             operating_income |-> m("operating_income"),
             interest_expense |-> m("interest_expense"),
             net_income |-> m("net_income"),
             ebitda |-> m("ebitda")],
         balance_sheet |->
            [total_assets |-> m("total_assets"),
             current_assets |-> m("current_assets"),
             cash_and_equivalents |-> m("cash_and_equivalents"),
             inventory |-> m("inventory"),
             accounts_receivable |-> m("accounts_receivable"),
             current_liabilities |-> m("current_liabilities"),
             total_debt |-> m("total_debt"),
             shareholders_equity |-> m("shareholders_equity")],
         cash_flow_statement |->
            [operating_cash_flow |-> m("operating_cash_flow")]]

InitRatios ==
    /\ \E key \in StatementKeys :
       \E fields \in {F \in SUBSET Metrics : Cardinality(F) <= MaxReported} :
       \E reported \in [fields -> ReportedValues] :
          statement = Some(StatementOf(key, reported))
    /\ ratios = None
    /\ IdleFetch /\ IdleDivide /\ IdleSec /\ IdleYf /\ IdleObject /\ IdleAnalysis

CallCalculateRatios ==
    /\ IsNone(ratios)
    /\ ratios' = Some(CalculateRatios(statement[1]))
    /\ UNCHANGED statement

NextRatios == CallCalculateRatios /\ UNCHANGED <<fetchVars, divideVars, secVars, yfVars, objectVars, analysisVars>>

SpecRatios == InitRatios /\ [][NextRatios]_vars

(***************************************************************************)
(* SecEdgarProvider.get_financial_statements                               *)
(***************************************************************************)
\* XBRL_TAG_MAP (lines 20-45), restricted to two of its metrics and kept in
\* its order: a metric with one tag and the metric with two tags that the
\* map marks "Needs summation".
XBRL_TAG_MAP ==
    << [metric |-> "net_income", tags |-> <<"NetIncomeLoss">>],
       [metric |-> "total_debt",
        tags |-> <<"LongTermDebtAndCapitalLeaseObligations", "DebtCurrent">>] >>

Tags == {"NetIncomeLoss", "LongTermDebtAndCapitalLeaseObligations", "DebtCurrent"}

SecMetrics == {"net_income", "total_debt"}

\* One entry of fact_data["units"]["USD"].  fy and end are None when the
\* entry lacks the key.
Item(val, fy, end, form, fp) ==
    [val |-> val, fy |-> fy, end |-> end, form |-> form, fp |-> fp]

FiscalYears == {2022, 2023}
EndDates    == {1231, 930}

Items ==
    \* annual entries with all their keys
    { Item(v, Some(y), Some(e), "10-K", "FY") :
          v \in {0, 300, 500}, y \in FiscalYears, e \in EndDates }
    \* annual entries lacking the fiscal year or the period-end date
    \cup { Item(300, None, Some(1231), "10-K", "FY"),
           Item(300, Some(2023), None, "10-K", "FY") }
    \* quarterly entries and entries of another fiscal period
    \cup { Item(500, Some(y), Some(930), "10-Q", fp) :
             y \in FiscalYears, fp \in {"FY", "Q1"} }
    \cup { Item(500, Some(y), Some(930), "10-K", "Q1") : y \in FiscalYears }

\* the filter without the fiscal-period test (that of the older
\* DataExtractor, src/src/data_extractor.py line 45)
IsAnnualFormOnly(item) == item.form = "10-K"

IsAnnual(item) == item.form = "10-K" /\ item.fp = "FY"

\* lines 132-136: the data of the first tag of the metric that the document
\* has (None if it has none of them)
RECURSIVE get_fact_data(_, _)
get_fact_data(facts, tags) ==
    IF tags = << >> THEN None
    ELSE IF ~IsNone(facts[Head(tags)]) THEN facts[Head(tags)]
    ELSE get_fact_data(facts, Tail(tags))

\* annual_data = defaultdict(lambda: defaultdict(dict)), line 140
NoMetrics == [m \in SecMetrics |-> None]

\* lines 155-156: annual_data[fy][metric] = val; annual_data[fy]["end_date"] = end
StoreItem(annual_data, fy, metric, val, end) ==
    [y \in DOMAIN annual_data \cup {fy} |->
        IF y = fy
        THEN [end_date |-> Some(end),
              data |-> [(IF fy \in DOMAIN annual_data
                         THEN annual_data[fy].data ELSE NoMetrics)
                            EXCEPT ![metric] = Float(val)]]
        ELSE annual_data[y]]

\* lines 149-156: the loop over the USD entries of one metric.  item["fy"]
\* and item["end"] raise KeyError on an entry lacking the key.
RECURSIVE StoreItems(_, _, _)
StoreItems(items, metric, acc) ==
    IF items = << >> \/ acc.raised # "" THEN acc
    ELSE LET item == Head(items) IN
         IF IsAnnual(item)
         THEN IF IsNone(item.fy) \/ IsNone(item.end)
              THEN [raised |-> "KeyError", annual_data |-> acc.annual_data]
              ELSE StoreItems(Tail(items), metric,
                      [raised |-> "",
                       annual_data |-> StoreItem(acc.annual_data, item.fy[1],
                                                 metric, item.val, item.end[1])])
         ELSE StoreItems(Tail(items), metric, acc)

\* lines 142-156: the loop over XBRL_TAG_MAP
RECURSIVE StoreMetrics(_, _, _)
StoreMetrics(facts, k, acc) ==
    IF k > Len(XBRL_TAG_MAP) \/ acc.raised # "" THEN acc
    ELSE LET fact_data == get_fact_data(facts, XBRL_TAG_MAP[k].tags) IN
         IF IsNone(fact_data) THEN StoreMetrics(facts, k + 1, acc)
         ELSE StoreMetrics(facts, k + 1,
                           StoreItems(fact_data[1], XBRL_TAG_MAP[k].metric, acc))

\* line 161: sorted(annual_data.keys(), reverse=True)
RECURSIVE SortedDescending(_)
SortedDescending(S) ==
    IF S = {} THEN << >>
    ELSE LET top == CHOOSE x \in S : \A y \in S : y <= x
         IN  <<top>> \o SortedDescending(S \ {top})

\* Python "x or 0"
OrZero(x) == IF IsNone(x) \/ EqualsZero(x) THEN 0 ELSE x[1]

\* lines 170 and 190: total_debt_val, and "total_debt_val if
\* total_debt_val > 0 else None".  The key "debt_current_from_tag" is never
\* written, so d("debt_current_from_tag") is None.
TotalDebt(data) ==
    LET total_debt_val == OrZero(data.total_debt) + OrZero(None)
    IN  IF total_debt_val > 0 THEN Float(total_debt_val) ELSE None

\* lines 164-211: the FinancialStatement of one fiscal year
SecStatement(ticker, year, entry) ==
    [ticker |-> ticker, period |-> "FY", fiscal_year |-> year,
     end_date |-> entry.end_date[1],
     income_statement |-> [net_income |-> entry.data.net_income],
     balance_sheet |-> [total_debt |-> TotalDebt(entry.data)]]

Prefix(seq, n) == SubSeq(seq, 1, IF n < Len(seq) THEN n ELSE Len(seq))

\* get_financial_statements without the test of lines 213-214
GetFinancialStatementsUnchecked(ticker, facts, years) ==
    IF IsNone(facts) THEN Raise("DataProviderError")
    ELSE LET acc == StoreMetrics(facts[1], 1,
                                 [raised |-> "", annual_data |-> << >>])
             sorted_years == SortedDescending(DOMAIN acc.annual_data)
             taken == Prefix(sorted_years, years)
         IN  IF acc.raised # "" THEN Raise(acc.raised)
             ELSE Value([k \in 1..Len(taken) |->
                           SecStatement(ticker, taken[k], acc.annual_data[taken[k]])])

\* SecEdgarProvider.get_financial_statements(ticker, years) for the
\* company-facts document `facts` (None: a document without us-gaap facts)
GetFinancialStatements(ticker, facts, years) ==
    IF IsNone(facts) THEN Raise("DataProviderError")
    ELSE LET acc == StoreMetrics(facts[1], 1,
                                 [raised |-> "", annual_data |-> << >>])
             sorted_years == SortedDescending(DOMAIN acc.annual_data)
             taken == Prefix(sorted_years, years)
         IN  IF acc.raised # "" THEN Raise(acc.raised)
             ELSE IF taken = << >> THEN Raise("DataProviderError")
             ELSE Value([k \in 1..Len(taken) |->
                           SecStatement(ticker, taken[k], acc.annual_data[taken[k]])])

(***************************************************************************)
(* SpecSec: get_financial_statements applied to a company-facts document   *)
(***************************************************************************)
Rows == UNION { [1..n -> Tags \X Items] : n \in 0..MaxItems }

\* the document whose entries are `rows`, in that order within each tag;
\* the tags of `empty` are present without any USD entry
FactsOf(rows, empty) ==
    [t \in Tags |->
        LET own == SelectSeq(rows, LAMBDA r : r[1] = t)
        IN  IF own # << >> THEN Some([k \in 1..Len(own) |-> own[k][2]])
            ELSE IF t \in empty THEN Some(<< >>)
            ELSE None]

\* the tags followed by another tag in their metric's list: only for these
\* does a tag present without entries differ from an absent one (it keeps
\* get_fact_data from reaching the next tag)
MaskingTags ==
    UNION { {XBRL_TAG_MAP[k].tags[i] : i \in 1..(Len(XBRL_TAG_MAP[k].tags) - 1)}
            : k \in DOMAIN XBRL_TAG_MAP }

InitSec ==
    /\ \/ gaap_facts = None
       \/ \E rows \in Rows : \E empty \in SUBSET MaskingTags :
             gaap_facts = Some(FactsOf(rows, empty))
    /\ num_years \in 0..MaxYears
    /\ sec_result = None
    /\ IdleFetch /\ IdleDivide /\ IdleRatios /\ IdleYf /\ IdleObject /\ IdleAnalysis

CallGetFinancialStatements ==
    /\ IsNone(sec_result)
    /\ sec_result' = Some(GetFinancialStatements("AAPL", gaap_facts, num_years))
    /\ UNCHANGED <<gaap_facts, num_years>>

NextSec ==
    CallGetFinancialStatements
        /\ UNCHANGED <<fetchVars, divideVars, ratioVars, yfVars, objectVars, analysisVars>>

SpecSec == InitSec /\ [][NextSec]_vars

(***************************************************************************)
(* YFinanceProvider.get_financial_statements                               *)
(***************************************************************************)
\* Period-end dates (yyyymmdd) of the columns of ticker_obj.financials.
\* They are the consecutive fiscal-year ends of a 52/53-week calendar
\* (year ending on the Saturday nearest to 31 December).
PeriodEnds == {20150103, 20160102, 20161231, 20171230}

\* year_col.year, line 96
YearOf(date) == date \div 10000

\* one column of the income statement: its date and the cell of the row
\* "Net Income" (None: the row is missing or the cell is NaN)
Columns == [end_date : PeriodEnds, net_income : {None, Some(0), Some(2)}]

\* the DataFrames yfinance can deliver: at most MaxColumns columns, most
\* recent period first, no date twice
Financials ==
    UNION { { f \in [1..n -> Columns] :
                \A i \in 1..n : \A j \in 1..n :
                    i < j => f[i].end_date > f[j].end_date }
            : n \in 0..MaxColumns }

\* lines 98-105, get_val: float(val) if pd.notna(val) else None
get_val(column) ==
    IF IsNone(column.net_income) THEN None ELSE Float(column.net_income[1])

\* lines 111-120: the FinancialStatement of one column
YfStatement(ticker, column) ==
    [ticker |-> ticker, period |-> "FY", fiscal_year |-> YearOf(column.end_date),
     end_date |-> column.end_date,
     income_statement |-> [net_income |-> get_val(column)]]

\* YFinanceProvider.get_financial_statements(ticker, years), lines 79-130;
\* every exception raised inside is re-raised as DataProviderError (128-130)
YfGetFinancialStatements(ticker, income_stmt_df, balance_empty, years) ==
    IF income_stmt_df = << >> \/ balance_empty THEN Raise("DataProviderError")
    ELSE LET taken == Prefix(income_stmt_df, years)
         IN  IF taken = << >> THEN Raise("DataProviderError")
             ELSE Value([k \in 1..Len(taken) |-> YfStatement(ticker, taken[k])])

InitYf ==
    /\ financials \in Financials
    /\ balance_sheet_empty \in BOOLEAN
    /\ num_years \in 0..MaxYears
    /\ yf_result = None
    /\ gaap_facts = None /\ sec_result = None
    /\ IdleFetch /\ IdleDivide /\ IdleRatios /\ IdleObject /\ IdleAnalysis

CallYfGetFinancialStatements ==
    /\ IsNone(yf_result)
    /\ yf_result' = Some(YfGetFinancialStatements("AAPL", financials,
                                                  balance_sheet_empty, num_years))
    /\ UNCHANGED <<financials, balance_sheet_empty, gaap_facts, num_years,
                   sec_result>>

NextYf ==
    CallYfGetFinancialStatements
        /\ UNCHANGED <<fetchVars, divideVars, ratioVars, objectVars, analysisVars>>

SpecYf == InitYf /\ [][NextYf]_vars

(***************************************************************************)
(* One SecEdgarProvider object over a sequence of calls: the identifier    *)
(* table (_load_cik_map, _get_cik) and the company-facts cache             *)
(* (_get_company_facts)                                                    *)
(***************************************************************************)
\* core/config.py
NUM_HISTORICAL_YEARS == 5
REDIS_CACHE_EXPIRATION_SECONDS == 86400

\* the tickers the calls are made for, and str.upper() on them
RequestedTickers == {"AAPL", "aapl", "MSFT"}

Upper(ticker) == IF ticker = "aapl" THEN "AAPL" ELSE ticker

\* the entries company_tickers.json can hold, by the ticker they carry
\* (in upper or in lower case).  exchange is None when the entry has no
\* such key.
Company(ticker) ==
    IF Upper(ticker) = "AAPL"
    THEN [ticker |-> ticker, cik_str |-> 320193, title |-> "Apple Inc.",
          exchange |-> None]
    ELSE [ticker |-> ticker, cik_str |-> 789019, title |-> "MICROSOFT CORP",
          exchange |-> Some("Nasdaq")]

\* line 71: {company['ticker']: company for company in all_companies.values()}
TableOf(listed) == [t \in listed |-> Company(t)]

\* what the GET of CIK_MAP_URL can give: None for a RequestException
\* (network failure or HTTP error status), else the table of the JSON
\* document, which may list no company at all
TableResponses ==
    {None} \cup {Some(TableOf(listed)) :
                    listed \in {{}, {"AAPL"}, {"aapl"}, {"AAPL", "MSFT"}}}

\* str(n) as its sequence of decimal digits
RECURSIVE Str(_)
Str(n) == IF n < 10 THEN <<n>> ELSE Append(Str(n \div 10), n % 10)

\* s.zfill(width)
RECURSIVE zfill(_, _)
zfill(s, width) == IF Len(s) >= width THEN s ELSE zfill(<<0>> \o s, width)

\* lines 85-86 and 117: str(cik_str).zfill(10)
PaddedCik(company) == zfill(Str(company.cik_str), 10)

\* lines 114-119: the CompanyInfo built from a table entry
SecCompanyInfo(ticker, company_data) ==
    [ticker |-> Upper(ticker), name |-> company_data.title,
     cik |-> PaddedCik(company_data),
     exchange |-> IF IsNone(company_data.exchange) THEN Some("N/A")
                  ELSE company_data.exchange]

\* the company-facts documents the SEC serves for one cik over time: a
\* document with one annual NetIncomeLoss entry, later one with none
FactsVersions == 1..2

FactsContent(version) ==
    IF version = 1
    THEN Some(FactsOf(<< <<"NetIncomeLoss",
                           Item(300, Some(2023), Some(1231), "10-K", "FY")>> >>, {}))
    ELSE Some(FactsOf(<< >>, {"NetIncomeLoss"}))

\* what the GET of the facts URL of `cik` can give: None for a
\* RequestException, else the document the SEC serves at that time
FactsResponses(cik) ==
    {None} \cup {Some([cik |-> cik, version |-> v, served_at |-> now]) :
                    v \in FactsVersions}

\* "if self._cik_map:" (line 61): None and the empty dict are both falsy
Truthy(map) == ~IsNone(map) /\ DOMAIN map[1] # {}

\* a _load_cik_map that leaves an empty table behind when the GET fails
load_cik_map_clearing(map, response) ==
    IF Truthy(map) THEN [cik_map |-> map, fetched |-> FALSE, raised |-> ""]
    ELSE IF IsNone(response)
         THEN [cik_map |-> Some(TableOf({})), fetched |-> TRUE,
               raised |-> "DataProviderError"]
         ELSE [cik_map |-> response, fetched |-> TRUE, raised |-> ""]

\* _load_cik_map, lines 59-76, with `response` what the GET gives if made
load_cik_map(map, response) ==
    IF Truthy(map) THEN [cik_map |-> map, fetched |-> FALSE, raised |-> ""]
    ELSE IF IsNone(response)
         THEN [cik_map |-> map, fetched |-> TRUE, raised |-> "DataProviderError"]
         ELSE [cik_map |-> response, fetched |-> TRUE, raised |-> ""]

\* _get_company_facts without the test of lines 90-91
get_company_facts_uncached(cache, cik, response) ==
    IF IsNone(response)
    THEN [cache |-> cache, key |-> Some(cik), fetched |-> TRUE,
          raised |-> "DataProviderError", facts |-> None]
    ELSE [cache |-> [c \in DOMAIN cache \cup {cik} |->
                        IF c = cik THEN response[1] ELSE cache[c]],
          key |-> Some(cik), fetched |-> TRUE, raised |-> "", facts |-> response]

\* _get_company_facts, lines 88-103, with `response` what the GET gives if
\* made
get_company_facts(cache, cik, response) ==
    IF cik \in DOMAIN cache
    THEN [cache |-> cache, key |-> Some(cik), fetched |-> FALSE, raised |-> "",
          facts |-> Some(cache[cik])]
    ELSE IF IsNone(response)
         THEN [cache |-> cache, key |-> Some(cik), fetched |-> TRUE,
               raised |-> "DataProviderError", facts |-> None]
         ELSE [cache |-> [c \in DOMAIN cache \cup {cik} |->
                             IF c = cik THEN response[1] ELSE cache[c]],
               key |-> Some(cik), fetched |-> TRUE, raised |-> "",
               facts |-> response]

\* what one call did
CallRecord(op, ticker, loaded, looked, raised) ==
    [op |-> op, ticker |-> ticker, at |-> now,
     cik |-> IF op = "_get_cik" /\ raised = ""
             THEN Some(PaddedCik(loaded.cik_map[1][Upper(ticker)])) ELSE None,
     info |-> IF op = "get_company_info" /\ raised = ""
              THEN Some(SecCompanyInfo(ticker, loaded.cik_map[1][Upper(ticker)]))
              ELSE None,
     table_fetched |-> loaded.fetched,
     table |-> IF loaded.raised = "" THEN loaded.cik_map ELSE None,
     key |-> looked.key, facts_fetched |-> looked.fetched,
     facts |-> looked.facts,
     raised |-> raised]

\* no facts lookup was made
NoLookup == [cache |-> company_facts_cache, key |-> None, fetched |-> FALSE,
             raised |-> "", facts |-> None]

NotFound(loaded, ticker) ==
    loaded.raised = "" /\ Upper(ticker) \notin DOMAIN loaded.cik_map[1]

\* _get_cik(ticker), lines 78-86, and get_company_info(ticker), lines
\* 105-119: load the table, look the upper-cased ticker up
Lookup(op, ticker, response) ==
    LET loaded == load_cik_map(cik_map, response)
    IN  /\ cik_map' = loaded.cik_map
        /\ last_call' = Some(
              CallRecord(op, ticker, loaded, NoLookup,
                         IF loaded.raised # "" THEN loaded.raised
                         ELSE IF NotFound(loaded, ticker) THEN "DataProviderError"
                         ELSE ""))
        /\ call_count' = call_count + 1
        /\ UNCHANGED <<company_facts_cache, now>>

GetCik ==
    /\ call_count < MaxCalls
    /\ \E ticker \in RequestedTickers : \E response \in TableResponses :
          Lookup("_get_cik", ticker, response)

SecGetCompanyInfo ==
    /\ call_count < MaxCalls
    /\ \E ticker \in RequestedTickers : \E response \in TableResponses :
          Lookup("get_company_info", ticker, response)

\* get_financial_statements(ticker, num_years), lines 121-216: _get_cik,
\* _get_company_facts, then the extraction from the document
SecGetFinancialStatements ==
    /\ call_count < MaxCalls
    /\ \E ticker \in RequestedTickers : \E response \in TableResponses :
          LET loaded == load_cik_map(cik_map, response)
          IN  /\ cik_map' = loaded.cik_map
              /\ IF loaded.raised # "" \/ NotFound(loaded, ticker)
                 THEN /\ last_call' = Some(
                            CallRecord("get_financial_statements", ticker, loaded,
                                       NoLookup, "DataProviderError"))
                      /\ UNCHANGED company_facts_cache
                 ELSE LET cik == loaded.cik_map[1][Upper(ticker)].cik_str IN
                      \E facts_response \in FactsResponses(cik) :
                         LET looked == get_company_facts(company_facts_cache, cik,
                                                         facts_response)
                             extracted ==
                                 GetFinancialStatements(Upper(ticker),
                                     FactsContent(looked.facts[1].version),
                                     NUM_HISTORICAL_YEARS)
                         IN  /\ company_facts_cache' = looked.cache
                             /\ last_call' = Some(
                                   CallRecord("get_financial_statements", ticker,
                                       loaded, looked,
                                       IF looked.raised # "" THEN looked.raised
                                       ELSE extracted.raised))
    /\ call_count' = call_count + 1
    /\ UNCHANGED now

\* time passes between two calls, half a cache lifetime at a time
Tick ==
    /\ now < MaxTicks * (REDIS_CACHE_EXPIRATION_SECONDS \div 2)
    /\ now' = now + REDIS_CACHE_EXPIRATION_SECONDS \div 2
    /\ UNCHANGED <<cik_map, company_facts_cache, call_count, last_call>>

\* the object after __init__ (lines 53-57)
InitObject ==
    /\ cik_map = None
    /\ company_facts_cache = << >>
    /\ now = 0
    /\ call_count = 0
    /\ last_call = None
    /\ IdleFetch /\ IdleDivide /\ IdleRatios /\ IdleSec /\ IdleYf /\ IdleAnalysis

NextObject ==
    \/ GetCik /\ UNCHANGED <<fetchVars, divideVars, ratioVars, secVars, yfVars, analysisVars>>
    \/ SecGetCompanyInfo /\ UNCHANGED <<fetchVars, divideVars, ratioVars, secVars, yfVars, analysisVars>>
    \/ SecGetFinancialStatements /\ UNCHANGED <<fetchVars, divideVars, ratioVars, secVars, yfVars, analysisVars>>
    \/ Tick /\ UNCHANGED <<fetchVars, divideVars, ratioVars, secVars, yfVars, analysisVars>>

SpecObject == InitObject /\ [][NextObject]_vars

(***************************************************************************)
(* AnalysisService: _get_trend and the _analyze_* functions (SpecTrend)    *)
(***************************************************************************)
MaxWindow == 3

\* Python "a < b" on two floats (denominators are positive)
LessThan(a, b) == a[1] * b[2] < b[1] * a[2]

\* [d for d in data if d is not None]
ValidData(data) == SelectSeq(data, LAMBDA d : ~IsNone(d))

\* a variant of _get_trend that compares the two most recent valid points
get_trend_adjacent(data) ==
    LET valid_data == ValidData(data)
    IN  IF Len(valid_data) < 2 THEN "stable (insufficient data)"
        ELSE IF LessThan(valid_data[2], valid_data[1]) THEN "improving"
        ELSE IF LessThan(valid_data[1], valid_data[2]) THEN "declining"
        ELSE "stable"

\* _get_trend(data)
get_trend(data) ==
    LET valid_data == ValidData(data)
    IN  IF Len(valid_data) < 2 THEN "stable (insufficient data)"
        ELSE IF LessThan(valid_data[Len(valid_data)], valid_data[1])
             THEN "improving"
        ELSE IF LessThan(valid_data[1], valid_data[Len(valid_data)])
             THEN "declining"
        ELSE "stable"

\* the ratios read by _analyze_liquidity, _analyze_leverage and
\* _analyze_efficiency
TrendMetrics == {"current_ratio", "debt_to_equity", "asset_turnover"}

\* the trend an _analyze_* function puts into its text: none when the latest
\* value is null ("... data is not available."), else _get_trend of the
\* metric's history, whatever the metric
analyze(m, values) ==
    IF IsNone(values[1]) THEN None ELSE Some(get_trend(values))

TrendValues ==
    {Rational(8, 10), Float(1), Rational(12, 10), Rational(15, 10), Float(2)}

RECURSIVE Windows(_)
Windows(n) ==
    IF n = 0 THEN {<< >>}
    ELSE LET shorter == Windows(n - 1)
         IN  shorter \cup
             {Append(w, v) : w \in {x \in shorter : Len(x) = n - 1},
                             v \in TrendValues \cup {None}}

InitTrend ==
    /\ trend_metric \in TrendMetrics
    /\ historical \in Windows(MaxWindow)
    /\ trend = None /\ text_trend = None
    /\ latest = NoRatios /\ synthesis = None
    /\ IdleFetch /\ IdleDivide /\ IdleRatios /\ IdleSec /\ IdleYf /\ IdleObject

\* self._get_trend(historical)
CallGetTrend ==
    /\ IsNone(trend)
    /\ trend' = Some(get_trend(historical))
    /\ UNCHANGED <<trend_metric, historical, text_trend, latest, synthesis>>

\* self._analyze_<metric>(ratios); generate_qualitative_analysis calls it
\* with a non-empty list only
CallAnalyze ==
    /\ IsNone(text_trend)
    /\ Len(historical) > 0
    /\ ~IsNone(analyze(trend_metric, historical))
    /\ text_trend' = analyze(trend_metric, historical)
    /\ UNCHANGED <<trend_metric, historical, trend, latest, synthesis>>

NextTrend ==
    \/ CallGetTrend /\ UNCHANGED <<fetchVars, divideVars, ratioVars, secVars, yfVars, objectVars>>
    \/ CallAnalyze /\ UNCHANGED <<fetchVars, divideVars, ratioVars, secVars, yfVars, objectVars>>

SpecTrend == InitTrend /\ [][NextTrend]_vars

(***************************************************************************)
(* AnalysisService._synthesize_findings (SpecSynthesis)                    *)
(***************************************************************************)
\* Python truthiness of an Optional[float]: None and 0.0 are falsy
TruthyFloat(x) == ~IsNone(x) /\ x[1] # 0

\* Python "a <= b" and "a >= b" on two floats
AtMost(a, b)  == ~LessThan(b, a)
AtLeast(a, b) == ~LessThan(a, b)

\* the if/elif of one category: the item it appends to each list
Liquidity(r) ==
    IF TruthyFloat(r.current_ratio) /\ AtLeast(r.current_ratio, Rational(15, 10))
    THEN [strengths |-> <<"Strong liquidity">>, concerns |-> << >>]
    ELSE IF TruthyFloat(r.current_ratio) /\ LessThan(r.current_ratio, Float(1))
    THEN [strengths |-> << >>, concerns |-> <<"Potential liquidity risk">>]
    ELSE [strengths |-> << >>, concerns |-> << >>]

Profitability(r) ==
    IF TruthyFloat(r.net_margin) /\ AtLeast(r.net_margin, Rational(10, 100))
    THEN [strengths |-> <<"High profitability">>, concerns |-> << >>]
    ELSE IF TruthyFloat(r.net_margin) /\ LessThan(r.net_margin, Float(0))
    THEN [strengths |-> << >>, concerns |-> <<"Operating at a net loss">>]
    ELSE [strengths |-> << >>, concerns |-> << >>]

Leverage(r) ==
    IF TruthyFloat(r.debt_to_equity) /\ AtMost(r.debt_to_equity, Rational(5, 10))
    THEN [strengths |-> <<"Low financial leverage">>, concerns |-> << >>]
    ELSE IF TruthyFloat(r.debt_to_equity) /\ LessThan(Rational(15, 10), r.debt_to_equity)
    THEN [strengths |-> << >>, concerns |-> <<"High debt levels">>]
    ELSE [strengths |-> << >>, concerns |-> << >>]

MixedProfile == "The company presents a mixed financial profile."
StrongPosition ==
    "The company demonstrates a strong overall financial position based on the available data."
AreasOfConcern ==
    "The analysis highlights several areas of concern that warrant attention."

\* a variant of the verdict that does not ask for an empty concerns list
OverallByCount(strengths, concerns) ==
    IF Len(strengths) > Len(concerns) THEN StrongPosition
    ELSE IF Len(concerns) > Len(strengths) THEN AreasOfConcern
    ELSE MixedProfile

\* overall, lines 141-145
Overall(strengths, concerns) ==
    IF Len(strengths) > Len(concerns) /\ Len(concerns) = 0 THEN StrongPosition
    ELSE IF Len(concerns) > Len(strengths) THEN AreasOfConcern
    ELSE MixedProfile

\* _synthesize_findings(analysis, ratios) with ratios[0] = r
synthesize_findings(r) ==
    LET strengths == Liquidity(r).strengths \o Profitability(r).strengths
                     \o Leverage(r).strengths
        concerns  == Liquidity(r).concerns \o Profitability(r).concerns
                     \o Leverage(r).concerns
    IN  [key_strengths   |-> strengths,
         key_concerns    |-> concerns,
         overall_summary |-> Overall(strengths, concerns)]

CurrentRatios == {None, Float(0), Rational(5, 10), Float(1), Rational(12, 10),
                  Rational(15, 10), Float(2)}
NetMargins    == {None, Rational(-1, 10), Float(0), Rational(5, 100),
                  Rational(10, 100), Rational(2, 10)}
DebtToEquity  == {None, Float(0), Rational(5, 10), Float(1), Rational(15, 10),
                  Float(2)}

InitSynthesis ==
    /\ latest \in [current_ratio : CurrentRatios, net_margin : NetMargins,
                   debt_to_equity : DebtToEquity]
    /\ synthesis = None
    /\ trend_metric = "" /\ historical = << >> /\ trend = None /\ text_trend = None
    /\ IdleFetch /\ IdleDivide /\ IdleRatios /\ IdleSec /\ IdleYf /\ IdleObject

\* self._synthesize_findings(analysis, historical_ratios)
CallSynthesizeFindings ==
    /\ IsNone(synthesis)
    /\ synthesis' = Some(synthesize_findings(latest))
    /\ UNCHANGED <<trend_metric, historical, trend, text_trend, latest>>

NextSynthesis ==
    CallSynthesizeFindings
        /\ UNCHANGED <<fetchVars, divideVars, ratioVars, secVars, yfVars, objectVars>>

SpecSynthesis == InitSynthesis /\ [][NextSynthesis]_vars

(***************************************************************************)
(* SpecAcquire: statement acquisition as a whole, i.e. one call of either  *)
(* provider's get_financial_statements or of the service's                 *)
(* fetch_company_financials                                                *)
(***************************************************************************)
InitAcquire == InitSec \/ InitYf \/ InitFetch

\* each call runs on the state its own Init prepared
NextAcquire ==
    \/ IdleFetch /\ IdleYf /\ NextSec
    \/ IdleFetch /\ gaap_facts = None /\ sec_result = None /\ NextYf
    \/ IdleSec /\ IdleYf /\ NextFetch

SpecAcquire == InitAcquire /\ [][NextAcquire]_vars

(***************************************************************************)
(* Properties of DataService.fetch_company_financials (SpecFetch)          *)
(***************************************************************************)
Min(S) == CHOOSE x \in S : \A y \in S : x <= y

\* Both operations of provider p return (neither raises).
Succeeds(p) ==
    /\ get_company_info(p).kind = "return"
    /\ get_financial_statements(p).kind = "return"

SucceedingProviders == {p \in ProviderIds : Succeeds(p)}

\* The first provider of the list whose two operations both return.
FirstSucceeding == Min(SucceedingProviders)

FallbackLog == SelectSeq(calls, LAMBDA c : c.phase = "fallback")
EnrichLog   == SelectSeq(calls, LAMBDA c : c.phase = "enrich")

Called(log, p, op) ==
    \E k \in DOMAIN log : log[k].provider = p /\ log[k].op = op

EnrichmentStarted == ~IsNone(merged_info_dict)

\* C1: providers are tried in list order, each at most once and none
\* skipped; when the call returns, the statements it returns are those of
\* the first provider whose get_company_info and get_financial_statements
\* both returned; get_financial_statements is never invoked on a provider
\* that comes after that provider.
C1_FirstSuccessIsPrimary ==
    /\ \A j, k \in DOMAIN FallbackLog :
          j < k => \/ FallbackLog[j].provider < FallbackLog[k].provider
                   \/ /\ FallbackLog[j].provider = FallbackLog[k].provider
                      /\ k = j + 1
                      /\ FallbackLog[j].op = "get_company_info"
                      /\ FallbackLog[k].op = "get_financial_statements"
    /\ \A k \in DOMAIN FallbackLog : \A q \in 1..(FallbackLog[k].provider - 1) :
          Called(FallbackLog, q, "get_company_info")
    /\ \A k \in DOMAIN calls :
          calls[k].op = "get_financial_statements"
             => \A q \in SucceedingProviders : q >= calls[k].provider
    /\ result.kind = "returned"
          => /\ SucceedingProviders # {}
             /\ result.statements = StatementsOf(FirstSucceeding)
             /\ Called(calls, FirstSucceeding, "get_financial_statements")

\* C1 witness: the call returned after falling back past a failing provider
\* while a provider after the primary would have succeeded too.
C1_Witness ==
    /\ result.kind = "returned"
    /\ FirstSucceeding > 1
    /\ \E q \in SucceedingProviders : q > FirstSucceeding

PrimaryInfo == CompanyInfoOf(FirstSucceeding)

\* C2: every field that is non-null in the primary's CompanyInfo has the
\* primary's value in the CompanyInfo the call returns.
C2_EnrichmentNeverOverwrites ==
    result.kind = "returned" =>
        /\ ~IsNone(PrimaryInfo.name) => result.info[1].name = PrimaryInfo.name
        /\ ~IsNone(PrimaryInfo.exchange)
              => result.info[1].exchange = PrimaryInfo.exchange
        /\ ~IsNone(PrimaryInfo.sector)
              => result.info[1].sector = PrimaryInfo.sector

\* C2 witness: the call returned and another provider, consulted before the
\* primary in the enrichment pass, offered its own value for a field the
\* primary has.
C2_Witness ==
    /\ result.kind = "returned"
    /\ \E q \in ProviderIds :
          /\ q < FirstSucceeding
          /\ get_company_info(q).kind = "return"
          /\ ~IsNone(PrimaryInfo.sector)
          /\ ~IsNone(CompanyInfoOf(q).sector)
          /\ CompanyInfoOf(q).sector # PrimaryInfo.sector

\* The providers whose get_company_info returns, i.e. succeeds during the
\* enrichment pass, with a non-null value for field f.
Offering(f) ==
    {q \in ProviderIds : /\ get_company_info(q).kind = "return"
                         /\ ~IsNone(CompanyInfoOf(q)[f])}

FirstOffered(f) ==
    IF Offering(f) = {} THEN None ELSE CompanyInfoOf(Min(Offering(f)))[f]

\* C3: every field that is null in the primary's CompanyInfo ends up equal
\* to the first non-null value offered for it, in provider-list order, by a
\* provider whose get_company_info succeeds, and null if there is none.
C3_FirstNonNullWins ==
    result.kind = "returned" =>
        /\ IsNone(PrimaryInfo.exchange)
              => result.info[1].exchange = FirstOffered("exchange")
        /\ IsNone(PrimaryInfo.sector)
              => result.info[1].sector = FirstOffered("sector")

\* C3 witness: the primary lacks the sector and two other providers offer
\* different values for it.
C3_Witness ==
    /\ result.kind = "returned"
    /\ IsNone(PrimaryInfo.sector)
    /\ Cardinality(Offering("sector")) >= 2
    /\ IsNone(PrimaryInfo.exchange)
    /\ Offering("exchange") = {}

AllProvidersFail == \A p \in ProviderIds : IsDataProviderError(FallbackRaised(p))

\* C4: if every provider raises a DataProviderError in the fallback loop,
\* the call raises a DataProviderError whose cause is the error of the last
\* provider of the list, and nothing is returned.
C4_AllFailRaisesLastError ==
    (pc = "done" /\ AllProvidersFail) =>
        /\ result.kind = "raised"
        /\ result.error[1].type = "DataProviderError"
        /\ result.error[1].op = "fetch_company_financials"
        /\ result.cause = FallbackRaised(NumProviders).error
        /\ result.cause[1].provider = NumProviders
        /\ IsNone(result.info)
        /\ result.statements = << >>

\* C4 witness: all providers failed, the first at get_financial_statements
\* and the last at get_company_info.
C4_Witness ==
    /\ pc = "done"
    /\ AllProvidersFail
    /\ FallbackRaised(1).error[1].op = "get_financial_statements"
    /\ FallbackRaised(NumProviders).error[1].op = "get_company_info"

\* Provider p would give the caller company info and a usable statement list.
Usable(p) == Succeeds(p) /\ Len(StatementsOf(p)) > 0

\* C5: whenever some provider of the list would return both company info
\* and a usable statement list, the call succeeds.
C5_ErrorOnlyOnExhaustion ==
    (pc = "done" /\ \E p \in ProviderIds : Usable(p)) => result.kind = "returned"

\* C6: once a primary is found, the enrichment pass invokes get_company_info
\* on every provider, and a provider failing in that pass neither stops it
\* nor reaches the caller.
C6_EnrichmentConsultsAll ==
    (pc = "done" /\ EnrichmentStarted) =>
        /\ \A p \in ProviderIds : Called(EnrichLog, p, "get_company_info")
        /\ result.kind = "returned"

(***************************************************************************)
(* Properties of CalculationService (SpecDivide, SpecRatios)               *)
(***************************************************************************)
\* q is the exact quotient n / d of two non-null numbers, d # 0
ExactQuotient(q, n, d) ==
    /\ ~IsNone(q)
    /\ q[2] > 0
    /\ q[1] * d[1] * n[2] = n[1] * d[2] * q[2]

\* q is null if n or d is null or d is zero, and the exact quotient otherwise
NullOrQuotient(q, n, d) ==
    IF IsNone(n) \/ IsNone(d) \/ EqualsZero(d)
    THEN IsNone(q)
    ELSE ExactQuotient(q, n, d)

\* C7: _safe_divide returns (never raises); the result is null if and only
\* if the numerator is null, the denominator is null or the denominator is
\* 0; otherwise it is the exact quotient, which is 0 for a zero numerator.
C7_SafeDivideNullIffAndExact ==
    ~IsNone(quotient) =>
        /\ quotient[1].raised = ""
        /\ IsNone(quotient[1].value)
              <=> (IsNone(numerator) \/ IsNone(denominator) \/ EqualsZero(denominator))
        /\ NullOrQuotient(quotient[1].value, numerator, denominator)
        /\ (EqualsZero(numerator) /\ ~IsNone(quotient[1].value))
              => quotient[1].value = Float(0)

\* C7 witness: a zero numerator over a non-zero denominator gave 0.
C7_Witness ==
    /\ ~IsNone(quotient)
    /\ EqualsZero(numerator)
    /\ ~IsNone(denominator) /\ ~EqualsZero(denominator)
    /\ quotient[1].value = Float(0)

MetricOf(s, f) ==
    IF f \in IncomeMetrics THEN s.income_statement[f]
    ELSE IF f \in BalanceMetrics THEN s.balance_sheet[f]
    ELSE s.cash_flow_statement[f]

\* The fixed operands <<numerator, denominator>> of the ratio formulas
\* (the numerator of quick_ratio is current_assets - inventory).
RatioOperands ==
    [current_ratio         |-> <<"current_assets", "current_liabilities">>,
     quick_ratio           |-> <<"current_assets", "current_liabilities">>,
     cash_ratio            |-> <<"cash_and_equivalents", "current_liabilities">>,
     roe                   |-> <<"net_income", "shareholders_equity">>,
     roa                   |-> <<"net_income", "total_assets">>,
     gross_margin          |-> <<"gross_profit", "revenue">>,
     net_margin            |-> <<"net_income", "revenue">>,
     ebitda_margin         |-> <<"ebitda", "revenue">>,
     debt_to_equity        |-> <<"total_debt", "shareholders_equity">>,
     debt_to_assets        |-> <<"total_debt", "total_assets">>,
     times_interest_earned |-> <<"operating_income", "interest_expense">>,
     debt_service_coverage |-> <<"operating_cash_flow", "total_debt">>,
     asset_turnover        |-> <<"revenue", "total_assets">>,
     inventory_turnover    |-> <<"cost_of_goods_sold", "inventory">>,
     receivables_turnover  |-> <<"revenue", "accounts_receivable">>]

NumeratorOf(s, r)   == MetricOf(s, RatioOperands[r][1])
DenominatorOf(s, r) == MetricOf(s, RatioOperands[r][2])

\* C8: calculate_ratios returns a FinancialRatios record for every
\* statement (it never raises), and a ratio whose operand is missing or
\* whose denominator is zero is null.
C8_RatioEngineNeverRaises ==
    ~IsNone(ratios) =>
        /\ ratios[1].raised = ""
        /\ ~IsNone(ratios[1].value)
        /\ \A r \in RatioNames :
              (\/ IsNone(NumeratorOf(statement[1], r))
               \/ IsNone(DenominatorOf(statement[1], r))
               \/ EqualsZero(DenominatorOf(statement[1], r)))
                 => IsNone(ratios[1].value[1][r])
        /\ IsNone(statement[1].balance_sheet.inventory)
              => IsNone(ratios[1].value[1].quick_ratio)

\* C8 witness: ratios were computed for a statement with current assets but
\* no inventory and with a zero revenue under a reported net income.
C8_Witness ==
    /\ ~IsNone(ratios)
    /\ ~IsNone(statement[1].balance_sheet.current_assets)
    /\ IsNone(statement[1].balance_sheet.inventory)
    /\ EqualsZero(statement[1].income_statement.revenue)
    /\ ~IsNone(statement[1].income_statement.net_income)
    /\ ratios[1].raised = ""

\* q = (a - b) / d exactly
ExactQuickQuotient(q, a, b, d) ==
    /\ ~IsNone(q)
    /\ q[2] > 0
    /\ q[1] * d[1] * a[2] * b[2] = (a[1] * b[2] - b[1] * a[2]) * d[2] * q[2]

\* C9: each ratio of the record is safe-divide of the fixed operands of its
\* formula, taken from the statement; quick_ratio is
\* (current_assets - inventory) / current_liabilities and null when
\* current_assets or inventory is null; the record carries the statement's
\* ticker, fiscal_year and period.
C9_RatiosFollowFormulas ==
    (~IsNone(ratios) /\ ~IsNone(ratios[1].value)) =>
        LET s == statement[1]
            rec == ratios[1].value[1]
            b == s.balance_sheet
        IN  /\ \A r \in RatioNames \ {"quick_ratio"} :
                  NullOrQuotient(rec[r], NumeratorOf(s, r), DenominatorOf(s, r))
            /\ IF \/ IsNone(b.current_assets) \/ IsNone(b.inventory)
                  \/ IsNone(b.current_liabilities)
                  \/ EqualsZero(b.current_liabilities)
               THEN IsNone(rec.quick_ratio)
               ELSE ExactQuickQuotient(rec.quick_ratio, b.current_assets,
                                       b.inventory, b.current_liabilities)
            /\ rec.ticker = s.ticker
            /\ rec.fiscal_year = s.fiscal_year
            /\ rec.period = s.period

\* C9 witness: a record with a non-null quick ratio was produced from a
\* statement with a non-zero inventory.
C9_Witness ==
    /\ ~IsNone(ratios)
    /\ ~IsNone(ratios[1].value)
    /\ ~IsNone(ratios[1].value[1].quick_ratio)
    /\ ~EqualsZero(statement[1].balance_sheet.inventory)
    /\ statement[1].period = "Q1"

(***************************************************************************)
(* Properties of SecEdgarProvider.get_financial_statements (SpecSec)       *)
(***************************************************************************)
SecReturned == ~IsNone(sec_result) /\ sec_result[1].raised = ""

SecStatements == sec_result[1].value

\* the values of the annual entries of tag t for fiscal year y, in order
RetainedValues(t, y) ==
    IF IsNone(gaap_facts) \/ IsNone(gaap_facts[1][t]) THEN << >>
    ELSE LET kept == SelectSeq(gaap_facts[1][t][1],
                        LAMBDA item : IsAnnual(item) /\ item.fy = Some(y))
         IN  [k \in 1..Len(kept) |-> kept[k].val]

\* C10: the entries of every source tag of a metric are used, not only
\* those of the first tag found: when the two tags of total_debt each
\* contribute one positive value for a fiscal year (e.g. 300 and 500), the
\* statement of that year has their sum as total_debt (800).
C10_AllSourceTagsContribute ==
    SecReturned =>
        \A k \in DOMAIN SecStatements :
            LET y == SecStatements[k].fiscal_year
                long == RetainedValues("LongTermDebtAndCapitalLeaseObligations", y)
                current == RetainedValues("DebtCurrent", y)
            IN  (Len(long) = 1 /\ Len(current) = 1 /\ long[1] > 0 /\ current[1] > 0)
                    => SecStatements[k].balance_sheet.total_debt
                          = Float(long[1] + current[1])

RECURSIVE SumSeq(_)
SumSeq(values) ==
    IF values = << >> THEN 0 ELSE Head(values) + SumSeq(Tail(values))

\* C11: within one (fiscal year, metric) bucket the statement holds the sum
\* of the values of all retained entries of that year and metric (with one
\* retained entry, that entry's value).  Stated for net_income, whose only
\* source tag is NetIncomeLoss: two retained entries of 300 and 500 for one
\* year give 800.
C11_BucketIsSumOfEntries ==
    SecReturned =>
        \A k \in DOMAIN SecStatements :
            LET values == RetainedValues("NetIncomeLoss",
                                         SecStatements[k].fiscal_year)
            IN  values # << >>
                    => SecStatements[k].income_statement.net_income
                          = Float(SumSeq(values))

\* the retained (annual) entries of the data the extraction reads for
\* XBRL_TAG_MAP[k]
RetainedItems(k) ==
    LET fact_data == get_fact_data(gaap_facts[1], XBRL_TAG_MAP[k].tags)
    IN  IF IsNone(fact_data) THEN {}
        ELSE {fact_data[1][i] : i \in {j \in DOMAIN fact_data[1] :
                                          IsAnnual(fact_data[1][j])}}

AllRetainedItems == UNION {RetainedItems(k) : k \in DOMAIN XBRL_TAG_MAP}

\* the fiscal years with a retained entry that carries a period-end date
CompleteYears ==
    {item.fy[1] : item \in {i \in AllRetainedItems :
                                ~IsNone(i.fy) /\ ~IsNone(i.end)}}

\* C12: a fiscal year whose retained entries carry no period-end date gets
\* no statement, and the statements of the complete fiscal years are still
\* returned: when every retained entry names its fiscal year and some year
\* is complete, a call asking for at least one year returns, and returns
\* statements of complete years only.
C12_IncompleteYearOmitted ==
    (/\ ~IsNone(sec_result) /\ ~IsNone(gaap_facts) /\ num_years >= 1
     /\ \A item \in AllRetainedItems : ~IsNone(item.fy)
     /\ CompleteYears # {})
        => /\ SecReturned
           /\ \A k \in DOMAIN SecStatements :
                 SecStatements[k].fiscal_year \in CompleteYears

\* the entries of the data read for XBRL_TAG_MAP[k], whatever their form
ReadItems(k) ==
    LET fact_data == get_fact_data(gaap_facts[1], XBRL_TAG_MAP[k].tags)
    IN  IF IsNone(fact_data) THEN {}
        ELSE {fact_data[1][i] : i \in DOMAIN fact_data[1]}

\* an entry of the annual report for the full year
FullYearOfAnnualReport(item) == item.form = "10-K" /\ item.fp = "FY"

QuarterlyOrTransition(k) == {item \in ReadItems(k) : ~FullYearOfAnnualReport(item)}

FullYear(k) == {item \in ReadItems(k) : FullYearOfAnnualReport(item)}

RECURSIVE RetainedInOrder(_)
RetainedInOrder(k) ==
    IF k > Len(XBRL_TAG_MAP) THEN << >>
    ELSE LET fact_data == get_fact_data(gaap_facts[1], XBRL_TAG_MAP[k].tags)
         IN  (IF IsNone(fact_data) THEN << >>
              ELSE SelectSeq(fact_data[1], FullYearOfAnnualReport))
             \o RetainedInOrder(k + 1)

\* C14: the end date of a returned statement is the period-end date of the
\* first retained entry processed for its fiscal year; a later entry of the
\* same year with another period-end date does not change it.
C14_EndDateOfFirstEntry ==
    SecReturned =>
        \A n \in DOMAIN SecStatements :
            LET ofYear == SelectSeq(RetainedInOrder(1),
                              LAMBDA item : item.fy = Some(SecStatements[n].fiscal_year))
            IN  Some(SecStatements[n].end_date) = ofYear[1].end

YfReturned == ~IsNone(yf_result) /\ yf_result[1].raised = ""

YfStatements == yf_result[1].value

\* The call returned the statements of the `years` most recent of the
\* fiscal years `qualifying` (all of them if fewer), most recent first.
MostRecentYears(returned, qualifying, years) ==
    /\ Len(returned) = (IF years < Cardinality(qualifying)
                        THEN years ELSE Cardinality(qualifying))
    /\ \A k \in DOMAIN returned :
          /\ returned[k].fiscal_year \in qualifying
          /\ returned[k].period = "FY"
          /\ Cardinality({y \in qualifying : y > returned[k].fiscal_year}) = k - 1

\* the SEC provider returns the N most recent fiscal years with a retained
\* entry, in strictly descending order
SecMostRecentYears ==
    SecReturned =>
        MostRecentYears(SecStatements,
                        {item.fy[1] : item \in AllRetainedItems}, num_years)

\* C15: get_financial_statements(ticker, N) returns the statements of the N
\* most recent qualifying fiscal years (all of them if fewer) in strictly
\* descending fiscal-year order, one statement per fiscal year.  Here for
\* YFinanceProvider, whose qualifying fiscal years are those of the columns
\* of the income statement.
C15_MostRecentYearsDescending ==
    YfReturned =>
        MostRecentYears(YfStatements,
                        {YearOf(financials[k].end_date) : k \in DOMAIN financials},
                        num_years)

\* the retained entries read for XBRL_TAG_MAP[k] that report fiscal year y
ReportedFor(k, y) == {item \in RetainedItems(k) : item.fy = Some(y)}

\* C16: in every constructed statement a metric is null exactly when no
\* retained entry reports it for the fiscal year, and a metric that one
\* retained entry reports holds that entry's value: an unreported metric
\* is never 0 and a reported value (a reported 0 included) is never null.
C16_NullIffUnreported ==
    SecReturned =>
        \A n \in DOMAIN SecStatements :
            LET st == SecStatements[n]
                Faithful(k, value) ==
                    /\ IsNone(value) <=> ReportedFor(k, st.fiscal_year) = {}
                    /\ \A item \in ReportedFor(k, st.fiscal_year) :
                          ReportedFor(k, st.fiscal_year) = {item}
                              => value = Float(item.val)
            IN  /\ Faithful(1, st.income_statement.net_income)
                /\ Faithful(2, st.balance_sheet.total_debt)

\* the same for the net_income of YFinanceProvider: null exactly when the
\* cell is missing
YfNullIffUnreported ==
    YfReturned =>
        \A n \in DOMAIN YfStatements :
            YfStatements[n].income_statement.net_income
                = (IF IsNone(financials[n].net_income) THEN None
                   ELSE Float(financials[n].net_income[1]))

\* C17: a company with zero qualifying fiscal years makes
\* get_financial_statements raise DataProviderError instead of returning an
\* empty list (SecEdgarProvider: no retained entry; YFinanceProvider: no
\* column), no provider call returns an empty list, and
\* fetch_company_financials never returns an empty statement list.
C17_NoEmptyStatementList ==
    /\ (~IsNone(sec_result) /\ (IsNone(gaap_facts) \/ AllRetainedItems = {}))
          => sec_result[1] = Raise("DataProviderError")
    /\ SecReturned => Len(SecStatements) > 0
    /\ (~IsNone(yf_result) /\ financials = << >>)
          => yf_result[1] = Raise("DataProviderError")
    /\ YfReturned => Len(YfStatements) > 0
    /\ result.kind = "returned" => Len(result.statements) > 0

\* get_financial_statements was called for at least one year on a document
\* that has us-gaap entries, none of them retained, and raised
C17_Witness ==
    /\ ~IsNone(sec_result) /\ ~IsNone(gaap_facts) /\ num_years >= 1
    /\ \E k \in DOMAIN XBRL_TAG_MAP : ReadItems(k) # {}
    /\ AllRetainedItems = {}
    /\ sec_result[1].raised = "DataProviderError"

(***************************************************************************)
(* Properties of one SecEdgarProvider object (SpecObject)                  *)
(***************************************************************************)
\* this step is a call on the object
CallMade == call_count' # call_count

\* the cache entry is live: its lifetime has not elapsed since it was stored
Live(entry) == now < entry.served_at + REDIS_CACHE_EXPIRATION_SECONDS

\* C18: cache idempotence.  A lookup of a key whose entry is live makes no
\* network fetch and returns the stored document; a lookup that fetched a
\* document leaves it stored under its key, so that of two consecutive
\* lookups of one key exactly one fetches; no lookup returns the document
\* of another key, and none adds, alters or removes the entry of another
\* key.
C18_CacheIdempotence ==
    [][CallMade =>
          LET call == last_call'[1]
              cache == company_facts_cache
          IN  /\ \A c \in DOMAIN cache :
                    (call.key # Some(c) \/ Live(cache[c]))
                        => /\ c \in DOMAIN company_facts_cache'
                           /\ company_facts_cache'[c] = cache[c]
              /\ \A c \in DOMAIN company_facts_cache' \ DOMAIN cache :
                    call.key = Some(c)
              /\ ~IsNone(call.facts)
                    => /\ call.facts[1].cik = call.key[1]
                       /\ company_facts_cache'[call.key[1]] = call.facts[1]
              /\ (~IsNone(call.key) /\ call.key[1] \in DOMAIN cache
                    /\ Live(cache[call.key[1]]))
                    => /\ ~call.facts_fetched
                       /\ call.facts = Some(cache[call.key[1]])]_vars

\* the third call looks up the key of the first again, after a lookup of
\* another key, and is served from the cache
C18_Witness ==
    /\ call_count = 3
    /\ Cardinality(DOMAIN company_facts_cache) = 2
    /\ ~IsNone(last_call[1].key)
    /\ ~last_call[1].facts_fetched
    /\ ~IsNone(last_call[1].facts)
    /\ Live(last_call[1].facts[1])
    /\ \E c \in DOMAIN company_facts_cache :
          c # last_call[1].key[1]
          /\ company_facts_cache[c].served_at > last_call[1].facts[1].served_at

\* C19: cache entries expire.  A lookup of a key made before the expiry of
\* its entry (the time it was stored + the lifetime) does not fetch; a
\* lookup made at or after the expiry fetches again and, when the fetch
\* delivers a document, replaces the entry with it.
C19_EntriesExpire ==
    [][(CallMade /\ ~IsNone(last_call'[1].key)
          /\ last_call'[1].key[1] \in DOMAIN company_facts_cache)
         => LET call == last_call'[1]
                entry == company_facts_cache[call.key[1]]
            IN  IF Live(entry) THEN ~call.facts_fetched
                ELSE /\ call.facts_fetched
                     /\ ~IsNone(call.facts)
                           => company_facts_cache'[call.key[1]] = call.facts[1]]_vars

\* C20: the identifier table is loaded on first use and then retained:
\* once a load has succeeded (the table is set, whatever it lists), no
\* later _get_cik, get_company_info or get_financial_statements call
\* fetches the table.
C20_TableLoadedOnce ==
    [][(CallMade /\ ~IsNone(cik_map)) => ~last_call'[1].table_fetched]_vars

\* the entries of table whose ticker is a case variant of `ticker`
CaseVariants(table, ticker) ==
    {k \in DOMAIN table : Upper(k) = Upper(ticker)}

\* C21: identifier lookup is case-insensitive on the ticker.  When the
\* table a _get_cik call looks in holds the ticker in any letter case, the
\* call returns that entry's zero-padded identifier, whatever the case of
\* the requested ticker; it fails only when the table holds no case
\* variant of it.
C21_LookupCaseInsensitive ==
    (~IsNone(last_call) /\ last_call[1].op = "_get_cik"
        /\ ~IsNone(last_call[1].table))
       => LET call == last_call[1]
              table == call.table[1]
          IN  /\ \A k \in CaseVariants(table, call.ticker) :
                    call.raised = "" /\ call.cik = Some(PaddedCik(table[k]))
              /\ CaseVariants(table, call.ticker) = {}
                    => call.raised = "DataProviderError"

\* the same for tables whose tickers are all in upper case: there the
\* lookup is insensitive to the case of the requested ticker
UpperCaseTableLookup ==
    (~IsNone(last_call) /\ last_call[1].op = "_get_cik"
        /\ ~IsNone(last_call[1].table)
        /\ \A k \in DOMAIN last_call[1].table[1] : Upper(k) = k)
       => LET call == last_call[1]
              table == call.table[1]
          IN  /\ \A k \in CaseVariants(table, call.ticker) :
                    call.raised = "" /\ call.cik = Some(PaddedCik(table[k]))
              /\ CaseVariants(table, call.ticker) = {}
                    => call.raised = "DataProviderError"

\* C22: a provider operation fails only with the uniform provider error:
\* whatever the company-facts document holds (entries lacking their fiscal
\* year or period-end date included), get_financial_statements returns or
\* raises DataProviderError, and nothing else.
C22_OnlyDataProviderError ==
    ~IsNone(sec_result) => sec_result[1].raised \in {"", "DataProviderError"}

\* the same for YFinanceProvider, which wraps every exception (lines
\* 128-130)
YfOnlyDataProviderError ==
    ~IsNone(yf_result) => yf_result[1].raised \in {"", "DataProviderError"}

(***************************************************************************)
(* Properties of fetch_company_financials over slow providers (SpecSlow)   *)
(***************************************************************************)
\* C23: every network fetch is bounded by a timeout, so even when a
\* provider never responds fetch_company_financials eventually completes
\* (it returns or raises).
C23_FetchEventuallyCompletes == <>(pc = "done")

\* when every provider answers, the call does complete
ResponsiveFetchCompletes ==
    (\A p \in ProviderIds :
        providers[p].info # "no response" /\ providers[p].stmts # "no response")
       => <>(pc = "done")

\* the providers of which some operation invoked by the call returned
ConsultedSuccessfully ==
    {calls[k].provider : k \in {j \in DOMAIN calls :
        IF calls[j].op = "get_company_info"
        THEN get_company_info(calls[j].provider).kind = "return"
        ELSE get_financial_statements(calls[j].provider).kind = "return"}}

\* C24: the provenance list of the assembled analysis holds only providers
\* that were consulted successfully during the run: with providers
\* [A (fails), B (succeeds)] it holds B only.
C24_SourcesUsedWereConsulted ==
    result.kind = "returned"
       => \A k \in DOMAIN data_sources_used :
             data_sources_used[k] \in ConsultedSuccessfully


(***************************************************************************)
(* Properties of AnalysisService (SpecTrend, SpecSynthesis)                *)
(***************************************************************************)
Valid == ValidData(historical)

\* the most recent and the oldest non-null value of the window
MostRecent == Valid[1]
Oldest     == Valid[Len(Valid)]

\* the window of the example: most recent first
LeverageFalling == <<Rational(8, 10), Float(1), Rational(12, 10)>>
LiquidityRising == <<Float(2), Rational(15, 10), Float(1)>>

\* C25: the trend an analysis reports follows the favorable direction of
\* its metric: a debt_to_equity that fell over the window (most recent value
\* below the oldest) is reported "improving", and so is a current_ratio that
\* rose over the window
C25_TrendFollowsFavorableDirection ==
    ~IsNone(text_trend) /\ Len(Valid) >= 2 =>
        /\ trend_metric = "debt_to_equity" /\ LessThan(MostRecent, Oldest)
              => text_trend[1] = "improving"
        /\ trend_metric = "current_ratio" /\ LessThan(Oldest, MostRecent)
              => text_trend[1] = "improving"

\* the half of it that the code provides: a rising current_ratio is
\* reported "improving"
RisingLiquidityImproving ==
    ~IsNone(text_trend) /\ trend_metric = "current_ratio"
        /\ historical = LiquidityRising
        => text_trend[1] = "improving"

\* what _analyze_leverage reports for the falling debt_to_equity
FallingLeverageDeclining ==
    ~IsNone(text_trend) /\ trend_metric = "debt_to_equity"
        /\ historical = LeverageFalling
        => text_trend[1] = "declining"


\* what _get_trend returns for the window, given the label it uses when
\* fewer than two values are non-null
EndpointTrend(insufficient) ==
    IF Len(Valid) < 2 THEN insufficient
    ELSE IF MostRecent = Oldest THEN "stable"
    ELSE IF LessThan(Oldest, MostRecent) THEN "improving"
    ELSE "declining"

NullsIgnored ==
    /\ ~IsNone(trend) /\ trend[1] \in {"improving", "declining"}
    /\ Len(historical) = 3 /\ IsNone(historical[1]) /\ Len(Valid) = 2


Category(item) ==
    IF item \in {"Strong liquidity", "Potential liquidity risk"} THEN "liquidity"
    ELSE IF item \in {"High profitability", "Operating at a net loss"}
         THEN "profitability"
    ELSE "leverage"

\* the number of items of the category in a list of flags
Flagged(flags, category) ==
    Len(SelectSeq(flags, LAMBDA item : Category(item) = category))

Strengths == synthesis[1].key_strengths
Concerns  == synthesis[1].key_concerns

\* no category has an item in both lists
NoCategoryInBothLists ==
    \A category \in {"liquidity", "profitability", "leverage"} :
        Flagged(Strengths, category) = 0 \/ Flagged(Concerns, category) = 0

\* the liquidity items of the two lists, given whether the latest
\* current_ratio counts as below 1.0
LiquidityFlags(below) ==
    LET cr == latest.current_ratio
        s  == Flagged(Strengths, "liquidity")
        c  == Flagged(Concerns, "liquidity")
    IN  IF IsNone(cr) THEN s = 0 /\ c = 0
        ELSE IF AtLeast(cr, Rational(15, 10)) THEN s = 1 /\ c = 0
        ELSE IF below THEN s = 0 /\ c = 1
        ELSE s = 0 /\ c = 0

\* C27: a latest current_ratio of at least 1.5 adds exactly one liquidity
\* item to the strengths, one below 1.0 (0 included) adds exactly one
\* liquidity item to the concerns, a value in [1.0, 1.5) or a null value adds
\* to neither list, and no category has an item in both lists
C27_LiquidityThresholds ==
    ~IsNone(synthesis) =>
        /\ LiquidityFlags(LessThan(latest.current_ratio, Float(1)))
        /\ NoCategoryInBothLists

\* what the code provides: the same, except that a current_ratio of 0 adds
\* no item at all
NonZeroLiquidityThresholds ==
    ~IsNone(synthesis) =>
        /\ LiquidityFlags(LessThan(latest.current_ratio, Float(1))
                          /\ latest.current_ratio # Float(0))
        /\ NoCategoryInBothLists

\* a latest debt_to_equity of 0 is not flagged as a strength either
ZeroLeverageNotFlagged ==
    ~IsNone(synthesis) /\ latest.debt_to_equity = Float(0)
        => Flagged(Strengths, "leverage") = 0


\* C28: the overall verdict is determined by the two flag lists: "strong
\* overall financial position" exactly when there is at least one strength
\* and no concern, "areas of concern" exactly when the concerns outnumber the
\* strengths, and "mixed financial profile" in every other case
C28_VerdictFromFlagCounts ==
    ~IsNone(synthesis) =>
        LET overall == synthesis[1].overall_summary IN
        /\ overall \in {StrongPosition, AreasOfConcern, MixedProfile}
        /\ overall = StrongPosition
              <=> Len(Strengths) >= 1 /\ Len(Concerns) = 0
        /\ overall = AreasOfConcern <=> Len(Concerns) > Len(Strengths)
        /\ overall = MixedProfile
              <=> /\ ~(Len(Strengths) >= 1 /\ Len(Concerns) = 0)
                  /\ ~(Len(Concerns) > Len(Strengths))

\* _synthesize_findings has returned the mixed verdict for more strengths
\* than concerns, the concerns not being empty
C28_Witness ==
    /\ ~IsNone(synthesis)
    /\ Len(Strengths) > Len(Concerns) /\ Len(Concerns) >= 1
    /\ synthesis[1].overall_summary = MixedProfile

\* the mixed verdict is also returned for no flag at all and for equal
\* non-zero counts
MixedWithoutFlags ==
    /\ ~IsNone(synthesis) /\ Len(Strengths) = 0 /\ Len(Concerns) = 0
    /\ synthesis[1].overall_summary = MixedProfile

MixedOnEqualCounts ==
    /\ ~IsNone(synthesis) /\ Len(Strengths) = 1 /\ Len(Concerns) = 1
    /\ synthesis[1].overall_summary = MixedProfile


(***************************************************************************)
(* Failed fetches of one SecEdgarProvider object (SpecObject)              *)
(***************************************************************************)
\* the call made a facts GET that failed
FactsFetchFailed(call) == call.facts_fetched /\ IsNone(call.facts)

\* the call made a GET of the identifier table that failed
TableLoadFailed(call) == call.table_fetched /\ IsNone(call.table)

\* C29: a failed fetch leaves the in-memory stores unchanged.  A call whose
\* facts fetch for an identifier fails caches no entry for it and leaves
\* every cached entry as it was, and the next request for that identifier
\* fetches again; a call whose identifier-table load fails leaves the table
\* as it was, not usable, and the cache untouched, and the next call
\* retries the load.
C29_FailedFetchStoresNothing ==
    [][CallMade =>
          LET call == last_call'[1] IN
          /\ FactsFetchFailed(call)
                => /\ company_facts_cache' = company_facts_cache
                   /\ call.key[1] \notin DOMAIN company_facts_cache'
          /\ TableLoadFailed(call)
                => /\ cik_map' = cik_map /\ ~Truthy(cik_map')
                   /\ company_facts_cache' = company_facts_cache
          /\ (~IsNone(last_call) /\ FactsFetchFailed(last_call[1])
                /\ call.key = last_call[1].key)
                => call.facts_fetched
          /\ (~IsNone(last_call) /\ TableLoadFailed(last_call[1]))
                => call.table_fetched]_vars

\* a facts fetch has just failed on an object that holds the document of
\* another identifier
C29_Witness ==
    /\ ~IsNone(last_call) /\ FactsFetchFailed(last_call[1])
    /\ DOMAIN company_facts_cache # {}
    /\ last_call[1].key[1] \notin DOMAIN company_facts_cache

\* a table load has just failed on an object that made a call before
TableLoadHasFailed ==
    /\ call_count >= 2 /\ TableLoadFailed(last_call[1]) /\ ~Truthy(cik_map)


\* the last call was a get_company_info that returned the CompanyInfo of a
\* table entry carrying no exchange
InfoOfEntryWithoutExchange ==
    /\ ~IsNone(last_call) /\ last_call[1].op = "get_company_info"
    /\ ~IsNone(last_call[1].info)
    /\ IsNone(cik_map[1][Upper(last_call[1].ticker)].exchange)

\* the exchange another provider offers during enrichment
OfferedExchange == Some("NMS")

\* C30: an optional CompanyInfo field that SecEdgarProvider cannot supply is
\* returned as null.  The CompanyInfo it returns for a table entry with no
\* exchange has a null exchange, so that the enrichment of it as primary
\* info takes the exchange another provider offers.
C30_MissingExchangeIsNull ==
    InfoOfEntryWithoutExchange =>
        /\ IsNone(last_call[1].info[1].exchange)
        /\ EnrichField(last_call[1].info[1].exchange, OfferedExchange)
              = OfferedExchange

\* what the code returns: the placeholder "N/A", which enrichment keeps
MissingExchangeIsPlaceholder ==
    InfoOfEntryWithoutExchange =>
        /\ last_call[1].info[1].exchange = Some("N/A")
        /\ EnrichField(last_call[1].info[1].exchange, OfferedExchange)
              = Some("N/A")

=============================================================================
